---------------------------- MODULE Spec2Model ----------------------------
(***************************************************************************)
(* Model of the directive block engine of pymdownx/directives/__init__.py  *)
(* (DirectiveProcessor) together with the directive kinds Details and Tabs *)
(* and the part of the host block parser the engine calls back into.       *)
(*                                                                         *)
(* Text is modelled line by line.  A block is a sequence of lines; a line  *)
(* is a record saying which of the module's regular expressions match it:  *)
(*   k = "start"  RE_START matches: n colons, directive name w, argument a *)
(*   k = "end"    RE_END matches: n colons                                 *)
(*   k = "opt"    RE_YAML_LINE matches: a colon followed by the text w     *)
(*   k = "yaml"   RE_YAML_START / RE_YAML_END match: three dashes          *)
(*   k = "text"   none of them matches: the text w                         *)
(* A string (the text of a tree node) is a sequence of lines and NL marks. *)
(***************************************************************************)
EXTENDS Naturals, Integers, Sequences, FiniteSets, TLC

VARIABLES
    tree,              \* the host's output tree: node id -> element
    ents,              \* the DirectiveEntry objects created so far, by identity
    stack,             \* DirectiveProcessor.stack: identities of the entries queued
    working,           \* DirectiveProcessor.working
    cached_parent,     \* DirectiveProcessor.cached_parent
    cached_directive,  \* DirectiveProcessor.cached_directive
    trackers,          \* DirectiveProcessor.trackers
    modes,             \* the host parser's state stack (parser.state)
    error,             \* the exception that ended the last host call, "" if none
    log,               \* what the engine did during the last host call
    plain,             \* no block offered since the last reset held a start fence
    passes,            \* host calls made since the last reset
    fin,               \* input of the function under check (function specifications)
    fout               \* its output

vars == <<tree, ents, stack, working, cached_parent, cached_directive, trackers,
          modes, error, log, plain, passes, fin, fout>>

----------------------------------------------------------------------------
(* Bounds of the model *)

MaxPasses == 2

MaxNodes == 8

\* the lines of a header block handed to split_header
MaxHeader == 3

----------------------------------------------------------------------------
(* Values *)

None == 0

Min(S) == CHOOSE x \in S : \A y \in S : x <= y

Line(k, n, w, a) == [k |-> k, n |-> n, w |-> w, a |-> a]

NL == Line("nl", 0, "", "")

Start(n, w, a) == Line("start", n, w, a)

End(n) == Line("end", n, "", "")

Text(w) == Line("text", 0, w, "")

Opt(w) == Line("opt", 0, w, "")

Yaml == Line("yaml", 0, "", "")

\* '\n'.join(lines) as a string
RECURSIVE JoinNL(_)
JoinNL(lines) ==
    IF Len(lines) = 0 THEN <<>>
    ELSE IF Len(lines) = 1 THEN <<lines[1]>>
    ELSE <<lines[1], NL>> \o JoinNL(Tail(lines))

----------------------------------------------------------------------------
(* The regular expressions *)

\* RE_START.search(block): the first line that is a start fence, 0 if none
RE_START(block) ==
    LET I == {i \in 1..Len(block) : block[i].k = "start"}
    IN  IF I = {} THEN 0 ELSE Min(I)

\* the first match of RE_END.finditer(block) with len(match.group(1)) >= length
RE_END_any(block, length) ==
    LET I == {i \in 1..Len(block) : block[i].k = "end"}
    IN  IF I = {} THEN 0 ELSE Min(I)

RE_END(block, length) ==
    LET I == {i \in 1..Len(block) : block[i].k = "end" /\ block[i].n >= length}
    IN  IF I = {} THEN 0 ELSE Min(I)

\* RE_YAML_LINE.match(line)
RE_YAML_LINE(line) == line.k = "opt"

\* RE_YAML_START.match(block.strip('\n'))
RE_YAML_START(block) == Len(block) > 0 /\ block[1].k = "yaml"

\* RE_YAML_END.search(block, begin): the first dash line after the first line
RE_YAML_END(block) ==
    LET I == {i \in 2..Len(block) : block[i].k = "yaml"}
    IN  IF I = {} THEN 0 ELSE Min(I)

----------------------------------------------------------------------------
(* split_end *)

\* good, end as returned; bad is what is left in the caller's list; fence is the
\* length of the end fence removed (0 if none)
\* the loop over the blocks: the first block with an end fence of at least
\* length colons, 0 if there is none
EndBlock(blocks, length) ==
    LET E == {e \in 1..Len(blocks) : RE_END(blocks[e], length) # 0}
    IN  IF E = {} THEN 0 ELSE Min(E)

split_end_tail(blocks, length) ==
    LET e == EndBlock(blocks, length)
    IN  IF e = 0
        THEN [good |-> blocks, bad |-> <<>>, end |-> FALSE, fence |-> 0]
        ELSE [good |-> SubSeq(blocks, 1, e - 1),
              bad |-> SubSeq(blocks, e + 1, Len(blocks)),
              end |-> TRUE,
              fence |-> blocks[e][RE_END(blocks[e], length)].n]

split_end(blocks, length) ==
    LET e == EndBlock(blocks, length)
    IN  IF e = 0
        THEN [good |-> blocks, bad |-> <<>>, end |-> FALSE, fence |-> 0]
        ELSE LET
             block == blocks[e]
                 i == RE_END(block, length)
                 pre == SubSeq(block, 1, i - 1)
                 post == SubSeq(block, i + 1, Len(block))
             IN  [good |-> SubSeq(blocks, 1, e - 1)
                             \o (IF pre # <<>> THEN <<pre>> ELSE <<>>),
                  bad |-> (IF post # <<>> THEN <<post>> ELSE <<>>)
                             \o SubSeq(blocks, e + 1, Len(blocks)),
                  end |-> TRUE,
                  fence |-> block[i].n]

----------------------------------------------------------------------------
(* get_frontmatter: the YAML texts the model distinguishes, by what          *)
(* yaml.load makes of them                                                   *)

\* "key: value" lines: a string key with a scalar value, a string key with a
\* mapping as its value, a key that is not a string
YamlEntries == {"id: v", "zz: v", "new: true", "id: {n: v}", "1: v"}

YamlItems == {"- i"}

YamlBroken == {"["}

Key(w) ==
    CASE w = "id: v" -> "id"
      [] w = "id: {n: v}" -> "id"
      [] w = "zz: v" -> "zz"
      [] w = "new: true" -> "new"
      [] w = "1: v" -> "1"

StrKey(w) == w # "1: v"

FlatValue(w) == w # "id: {n: v}"

\* the YAML text of a line between the two dash lines of a header
LineYaml(line) ==
    CASE line.k = "text" -> line.w
      [] line.k \in {"start", "end"} -> "a"

\* yaml_load(string): string is the lines ys joined by '\n'
yaml_load(ys) ==
    LET S == {ys[i] : i \in 1..Len(ys)}
    IN  IF S = {} THEN [kind |-> "null", items |-> {}]
        ELSE IF S \cap YamlBroken # {}
        THEN [kind |-> "error", items |-> {}]
        ELSE IF S \subseteq YamlEntries THEN [kind |-> "mapping", items |-> S]
        ELSE IF S \subseteq YamlItems THEN [kind |-> "list", items |-> {}]
        ELSE IF S \cap (YamlEntries \cup YamlItems) = {}
        THEN [kind |-> "scalar", items |-> {}]
        ELSE [kind |-> "error", items |-> {}]

get_frontmatter_any(ys) ==
    LET y == yaml_load(ys)
    IN  IF y.kind \in {"mapping", "list"}
        THEN [some |-> TRUE, items |-> y.items]
        ELSE [some |-> FALSE, items |-> {}]

\* some = FALSE is Python's None
get_frontmatter(ys) ==
    LET y == yaml_load(ys)
    IN  IF y.kind = "mapping"
        THEN [some |-> TRUE, items |-> y.items]
        ELSE [some |-> FALSE, items |-> {}]

----------------------------------------------------------------------------
(* split_header *)

\* the shorthand loop over lines[e..]: no branch of it leaves the loop once a
\* header line was seen
RECURSIVE ShorthandLoop(_, _, _, _, _)
ShorthandLoop(lines, e, good, bad, blocks) ==
    IF e > Len(lines) THEN [good |-> good, bad |-> bad]
    ELSE IF RE_YAML_LINE(lines[e])
    THEN ShorthandLoop(lines, e + 1, Append(good, lines[e].w), bad, blocks)
    ELSE IF good = <<>> THEN [good |-> good, bad |-> bad]
    ELSE ShorthandLoop(lines, e + 1, good,
                       bad \o <<SubSeq(lines, e, Len(lines))>> \o blocks, blocks)

\* the formal form: the text between the dash lines is good, what follows the
\* closing dash line and the caller's blocks are bad
Formal(block, blocks) ==
    LET m == RE_YAML_END(block)
    IN  IF m # 0
        THEN [any |-> TRUE,
              ys |-> [i \in 1..(m - 2) |-> LineYaml(block[i + 1])],
              bad |-> (IF m < Len(block) THEN <<SubSeq(block, m + 1, Len(block))>>
                       ELSE <<>>) \o blocks]
        ELSE [any |-> FALSE, ys |-> <<>>, bad |-> <<>>]

\* the shorthand form: any says whether good is non-empty
Shorthand(loop) == [any |-> loop.good # <<>>, ys |-> loop.good, bad |-> loop.bad]

\* the end of split_header, h being what the form found
Config(block, blocks, h) ==
    IF h.any /\ get_frontmatter(h.ys).some
    THEN [options |-> get_frontmatter(h.ys).items, blocks |-> h.bad]
    ELSE [options |-> {}, blocks |-> <<block>> \o blocks]

\* options: the mapping returned; blocks: the caller's list afterwards
split_header(block, blocks) ==
    IF block = <<>> THEN [options |-> {}, blocks |-> blocks]
    ELSE IF RE_YAML_START(block) THEN Config(block, blocks, Formal(block, blocks))
    ELSE Config(block, blocks,
                Shorthand(ShorthandLoop(block, 1, <<>>, <<>>, blocks)))

----------------------------------------------------------------------------
(* The output tree (xml.etree.ElementTree) *)

\* tabs holds the two numbers of a tab group's data-tabs attribute, of an
\* input's id and of a label's for attribute; atomic: the text is an AtomicString
Element(tag, cls) ==
    [tag |-> tag, kids |-> <<>>, text |-> <<>>, atomic |-> FALSE,
     cls |-> cls, tabs |-> <<0, 0>>]

\* etree.SubElement(parent, ...): the new element is node Len(t) + 1
SubElement(t, parent, el) ==
    [Append(t, el) EXCEPT ![parent].kids = Append(@, Len(t) + 1)]

\* parent.insert(index, el), index counted from 0
InsertElement(t, parent, index, el) ==
    LET ks == t[parent].kids
        at == IF index > Len(ks) THEN Len(ks) ELSE index
    IN  [Append(t, el) EXCEPT ![parent].kids =
            SubSeq(ks, 1, at) \o <<Len(t) + 1>> \o SubSeq(ks, at + 1, Len(ks))]

\* BlockProcessor.lastChild / Tabs.last_child
lastChild(t, n) ==
    IF Len(t[n].kids) > 0 THEN t[n].kids[Len(t[n].kids)] ELSE None

\* the truth value of an element reference: None is false, and so is an
\* element without children (Element.__len__)
Truthy(t, n) == n # None /\ Len(t[n].kids) > 0

\* parent.findall(tag): the children with that tag, in order
FindAll(t, n, tag) == SelectSeq(t[n].kids, LAMBDA c : t[c].tag = tag)

RECURSIVE Descends(_, _, _)
\* n is a or lies below a
Descends(t, n, a) ==
    n = a \/ \E i \in 1..Len(t[a].kids) : Descends(t, n, t[a].kids[i])

----------------------------------------------------------------------------
(* The tag classes of DirectiveProcessor.__init__ *)

\* md.block_level_elements of the host
block_level_tags ==
    {"address", "article", "aside", "blockquote", "details", "div", "dl",
     "fieldset", "figcaption", "figure", "footer", "form", "h1", "h2", "h3",
     "h4", "h5", "h6", "header", "hr", "main", "menu", "nav", "ol", "p", "pre",
     "section", "table", "ul", "canvas", "dd", "dt", "iframe", "li", "legend",
     "math", "noscript", "option", "script", "style", "summary", "td",
     "textarea", "th", "tr"}

empty_tags == {"hr"}

span_tags ==
    {"address", "dd", "dt", "h1", "h2", "h3", "h4", "h5", "h6", "legend", "li",
     "p", "summary", "td", "th"}

raw_tags == {"canvas", "math", "option", "pre", "script", "style", "textarea"}

block_tags == block_level_tags \ (span_tags \cup raw_tags \cup empty_tags)

\* how parse_blocks treats a block: "atomic" (text, AtomicString), "span"
\* (text) or "block" (parser.parseChunk); atomic is is_atomic(): "true",
\* "false" or "none"
ContentMode_tagonly(tag, atomic) ==
    IF tag \in raw_tags THEN "atomic"
    ELSE IF tag \in block_tags THEN "block" ELSE "span"

ContentMode(tag, atomic) ==
    LET is_block == tag \in block_tags
        is_atomic == IF atomic = "none" THEN tag \in raw_tags ELSE atomic = "true"
    IN  IF is_atomic \/ ~is_block
        THEN (IF is_atomic THEN "atomic" ELSE "span")
        ELSE "block"

----------------------------------------------------------------------------
(* The directive kinds *)

\* DirectiveProcessor.directives: the registered names
directives == {"details", "tab", "note"}

\* m.group(2).lower()
Lower(w) == IF w = "DETAILS" THEN "details" ELSE w

\* the directive "note": it requires no argument, declares no option and
\* its content is parsed as blocks
NoteArguments == 0

NoteOptions == {}

\* the OPTIONS of Details and Tabs
OPTIONS(name) ==
    IF name = "note" THEN NoteOptions
    ELSE IF name = "details" THEN {"open", "class", "id"}
    ELSE {"new", "class", "id"}

\* ARGUMENTS['required'] of Details and Tabs
RequiredArguments(name) == IF name = "note" THEN NoteArguments ELSE 1

\* Tabs.on_init: the tracker of tabs is <<>> while it has no key and
\* <<tab_group_count>> afterwards; Details keeps the default, which does nothing
on_init(name, tracker) ==
    IF name = "tab" /\ tracker = <<>> THEN <<0>> ELSE tracker

\* Directive(length, tracker, md): the instance test creates
NewDirective(name, length) ==
    [name |-> name, length |-> length, args |-> "", options |-> {},
     tab_content |-> None, atomic |-> "none"]

\* Directive.parse_config(args, **options): the arity is checked, then every
\* option must be a declared one whose converter accepts the value
parse_config(d, args, options) ==
    LET ok == /\ (RequiredArguments(d.name) >= 1 => args # "")
              /\ \A w \in options : Key(w) \in OPTIONS(d.name) /\ FlatValue(w)
    IN  [status |-> ok,
         d |-> IF ok THEN [d EXCEPT !.args = args, !.options = options] ELSE d]

\* Directive.is_atomic()
is_atomic(d) == d.atomic

\* Details.on_create: the details element with its summary
Details_on_create(s, d, parent) ==
    LET el == Len(s.tree) + 1
        t1 == SubElement(s.tree, parent, Element("details", ""))
        t2 == SubElement(t1, el, [Element("summary", "") EXCEPT !.text = <<Text(d.args)>>])
    IN  [s |-> [s EXCEPT !.tree = t2], el |-> el]

tabbed_set == "tabbed-set tabbed-alternate"

\* the first div child of group with class cls, None if there is none
DivOfClass(t, group, cls) ==
    LET ds == SelectSeq(FindAll(t, group, "div"), LAMBDA c : t[c].cls = cls)
    IN  IF ds = <<>> THEN None ELSE ds[1]

\* Tabs.on_create, the test for the sibling: the last child of the parent is
\* a tab group and the tab does not ask for a new one
JoinsGroup(t, sibling, d) ==
    /\ Truthy(t, sibling)
    /\ t[sibling].tag = "div"
    /\ t[sibling].cls = tabbed_set
    /\ "new: true" \notin d.options

TabGroup_nocount(t, tracker, sibling, parent, d) ==
    IF JoinsGroup(t, sibling, d)
    THEN [t |-> t, tracker |-> tracker, tab_group |-> sibling,
          labels |-> DivOfClass(t, sibling, "tabbed-labels"),
          content |-> DivOfClass(t, sibling, "tabbed-content"),
          index |-> Len(FindAll(t, sibling, "input"))]
    ELSE [t |-> SubElement(
                  SubElement(
                    SubElement(t, parent,
                               [Element("div", tabbed_set) EXCEPT
                                   !.tabs = <<tracker[1] + 1, 0>>]),
                    Len(t) + 1, Element("div", "tabbed-labels")),
                  Len(t) + 1, Element("div", "tabbed-content")),
          tracker |-> tracker, tab_group |-> Len(t) + 1,
          labels |-> Len(t) + 2, content |-> Len(t) + 3, index |-> 0]

\* Tabs.on_create, the two branches: the tree t, the tracker, the tab group
\* with its labels and content div, and the index of the new input
TabGroup(t, tracker, sibling, parent, d) ==
    IF JoinsGroup(t, sibling, d)
    THEN [t |-> t, tracker |-> tracker, tab_group |-> sibling,
          labels |-> DivOfClass(t, sibling, "tabbed-labels"),
          content |-> DivOfClass(t, sibling, "tabbed-content"),
          index |-> Len(FindAll(t, sibling, "input"))]
    ELSE [t |-> SubElement(
                  SubElement(
                    SubElement(t, parent,
                               [Element("div", tabbed_set) EXCEPT
                                   !.tabs = <<tracker[1] + 1, 0>>]),
                    Len(t) + 1, Element("div", "tabbed-labels")),
                  Len(t) + 1, Element("div", "tabbed-content")),
          tracker |-> <<tracker[1] + 1>>, tab_group |-> Len(t) + 1,
          labels |-> Len(t) + 2, content |-> Len(t) + 3, index |-> 0]

\* Tabs.on_create, from the data-tabs attribute on: the input, the label and
\* the content block of the tab
AddTab(s, g, d) ==
    LET numbers == <<g.t[g.tab_group].tabs[1], g.t[g.tab_group].tabs[2] + 1>>
    IN  [s |-> [s EXCEPT
                  !.tree =
                     [SubElement(
                        SubElement(
                          InsertElement(g.t, g.tab_group, g.index,
                                        [Element("input", "") EXCEPT !.tabs = numbers]),
                          g.labels,
                          [Element("label", "") EXCEPT !.tabs = numbers,
                                                       !.text = <<Text(d.args)>>]),
                        g.content, Element("div", "tabbed-block"))
                      EXCEPT ![g.tab_group].tabs = numbers],
                  !.trackers["tab"] = g.tracker],
         el |-> g.tab_group]

\* Tabs.on_create
Tabs_on_create(s, d, parent) ==
    AddTab(s, TabGroup(s.tree, s.trackers["tab"], lastChild(s.tree, parent), parent, d), d)

\* on_create of "note": one container element
Note_on_create(s, d, parent) ==
    [s |-> [s EXCEPT !.tree = SubElement(@, parent, Element("div", "note"))],
     el |-> Len(s.tree) + 1]

on_create(s, d, parent) ==
    IF d.name = "tab" THEN Tabs_on_create(s, d, parent)
    ELSE IF d.name = "note" THEN Note_on_create(s, d, parent)
    ELSE Details_on_create(s, d, parent)

\* the add step of "single", a kind of the registry contract that a
\* configuration may load: it hands out its element for its first block and
\* returns None afterwards
Single_on_add(t, el) ==
    IF t[el].kids = <<>> /\ t[el].text = <<>> THEN el ELSE None

\* entry.directive.on_add(entry.el): Tabs.on_add looks its content block up
\* once and keeps it; the others return the element
on_add(s, id) ==
    LET d == s.ents[id].directive
        el == s.ents[id].el
        ds == SelectSeq(FindAll(s.tree, el, "div"),
                        LAMBDA c : s.tree[c].cls = "tabbed-content")
    IN  IF d.name = "single" THEN [s |-> s, target |-> Single_on_add(s.tree, el)]
        ELSE IF d.name # "tab" THEN [s |-> s, target |-> el]
        ELSE IF d.tab_content # None THEN [s |-> s, target |-> d.tab_content]
        ELSE IF ds # <<>>
        THEN LET c == lastChild(s.tree, ds[1])
             IN  [s |-> [s EXCEPT !.ents[id].directive.tab_content = c], target |-> c]
        ELSE [s |-> s, target |-> el]

----------------------------------------------------------------------------
(* DirectiveProcessor.  An operator takes the state s of the processor and  *)
(* of the host (tree, ents, stack, working, cached_parent, cached_directive,*)
(* trackers, modes, error, log) and returns the state it leaves.            *)

Logged(s, ev) == [s EXCEPT !.log = Append(@, ev)]

Raise(s, exc) == [s EXCEPT !.error = exc]

\* the entries of the stack that are hungry with parent n
HungryAt(s, n) ==
    {i \in 1..Len(s.stack) : s.ents[s.stack[i]].hungry /\ s.ents[s.stack[i]].parent = n}

RECURSIVE Descend_child(_, _)
Descend_child(s, temp) ==
    IF ~Truthy(s.tree, temp) \/ ~Truthy(s.tree, lastChild(s.tree, temp)) THEN None
    ELSE IF HungryAt(s, lastChild(s.tree, temp)) # {} THEN lastChild(s.tree, temp)
    ELSE Descend_child(s, lastChild(s.tree, temp))

RECURSIVE Descend(_, _)
\* the loop of get_parent: down the last children while the element is true
Descend(s, temp) ==
    IF ~Truthy(s.tree, temp) THEN None
    ELSE IF HungryAt(s, temp) # {} THEN temp
    ELSE Descend(s, lastChild(s.tree, temp))

get_parent_self(s, parent) ==
    [s |-> [s EXCEPT !.cached_parent = parent], res |-> parent]

get_parent(s, parent) ==
    IF Truthy(s.tree, s.cached_parent)
    THEN [s |-> [s EXCEPT !.cached_parent = None], res |-> s.cached_parent]
    ELSE LET temp == Descend(s, parent)
         IN  [s |-> IF temp # None THEN [s EXCEPT !.cached_parent = temp] ELSE s,
              res |-> temp]

\* what test leaves untouched when it turns a block down
Untouched(s1, s2) ==
    /\ s2.stack = s1.stack
    /\ s2.ents = s1.ents
    /\ s2.cached_parent = s1.cached_parent
    /\ s2.cached_directive = s1.cached_directive
    /\ s2.tree = s1.tree

\* the end of test: parsed is what parse_config returned, rest the first of
\* the_rest
Configured_eager(s, parsed, rest) ==
    [s |-> [s EXCEPT !.cached_directive = <<[directive |-> parsed.d, block |-> rest]>>],
     ret |-> parsed.status,
     why |-> IF parsed.status THEN "new" ELSE "rejected"]

Configured(s, parsed, rest) ==
    IF parsed.status
    THEN [s |-> [s EXCEPT !.cached_directive =
                    <<[directive |-> parsed.d, block |-> rest]>>],
          ret |-> TRUE, why |-> "new"]
    ELSE [s |-> s, ret |-> FALSE, why |-> "rejected"]

\* test once the directive object d exists: header is what split_header made
\* of the block after the start fence
Configure(s, d, args, header) ==
    IF \E w \in header.options : ~StrKey(w)
    THEN [s |-> Raise(s, "TypeError"), ret |-> FALSE, why |-> "raised"]
    ELSE Configured(s, parse_config(d, args, header.options),
                    IF header.blocks # <<>> THEN header.blocks[1] ELSE <<>>)

\* test from the match m of RE_START on
StartAt(s, block, m) ==
    IF m = 0 THEN [s |-> s, ret |-> FALSE, why |-> "nostart"]
    ELSE IF Lower(block[m].w) \notin directives
    THEN [s |-> s, ret |-> FALSE, why |-> "unknown"]
    ELSE Configure([s EXCEPT !.trackers[Lower(block[m].w)] =
                                on_init(Lower(block[m].w), @)],
                   NewDirective(Lower(block[m].w), block[m].n), block[m].a,
                   split_header(SubSeq(block, m + 1, Len(block)), <<>>))

\* the part of test that looks for the start of a new directive
test_start(s, block) == StartAt(s, block, RE_START(block))

\* the first lines of test: g is what get_parent returned
Hungry(g, block) ==
    IF g.res # None THEN [s |-> g.s, ret |-> TRUE, why |-> "hungry"]
    ELSE test_start(g.s, block)

RECURSIVE Chain(_, _)
\* the elements get_parent can come by from n: n, its last child, the last
\* child of that one, and so on to an element without children
Chain(t, n) ==
    IF n = None THEN <<>> ELSE <<n>> \o Chain(t, lastChild(t, n))

\* the entries of the stack that are hungry, in the order of the stack, each
\* with its recorded parent
HungryEntries(s) ==
    [i \in 1..Cardinality({j \in 1..Len(s.stack) : s.ents[s.stack[j]].hungry}) |->
        LET j == CHOOSE j \in 1..Len(s.stack) :
                    /\ s.ents[s.stack[j]].hungry
                    /\ Cardinality({k \in 1..j : s.ents[s.stack[k]].hungry}) = i
        IN  [id |-> s.stack[j], parent |-> s.ents[s.stack[j]].parent]]

\* the event logged for a call of test says what it decided and why: s is the
\* state test was called in, r the state it leaves and what it returns
Decided(s, parent, r) ==
    [s |-> Logged(r.s, [op |-> "test", parent |-> parent, ret |-> r.ret,
                        why |-> r.why, kept |-> Untouched(s, r.s),
                        stale |-> s.cached_parent # None \/ s.cached_directive # <<>>,
                        working |-> s.working, modes |-> s.modes,
                        chain |-> Chain(s.tree, parent),
                        hungry |-> HungryEntries(s),
                        found |-> r.s.cached_parent]),
     ret |-> r.ret]

test_cold(s, parent, block) == Decided(s, parent, test_start(s, block))

\* test(parent, block)
test(s, parent, block) ==
    Decided(s, parent, Hungry(get_parent(s, parent), block))

DelStack_top(s, index) ==
    IF s.stack = <<>> THEN Raise(s, "IndexError")
    ELSE [s EXCEPT !.stack = SubSeq(@, 1, Len(@) - 1)]

\* del self.stack[index], index counted from 0
DelStack(s, index) ==
    IF index + 1 > Len(s.stack) THEN Raise(s, "IndexError")
    ELSE [s EXCEPT !.stack = SubSeq(@, 1, index) \o SubSeq(@, index + 2, Len(@))]

\* the tight list item made loose, in run
Loosen(t, parent) ==
    IF Truthy(t, parent) /\ t[parent].tag \in {"li", "dd"} /\ t[parent].text # <<>>
    THEN SubElement([t EXCEPT ![parent].text = <<>>], parent,
                    [Element("p", "") EXCEPT !.text = t[parent].text])
    ELSE t

\* the text branch of parse_blocks: target.text grows by the block
AddText(t, target, b, atomic) ==
    [t EXCEPT ![target].text = @ \o JoinNL(b), ![target].atomic = atomic]

\* ParagraphProcessor.run of the host outside a tight list: a p holding the block
Paragraph(s, parent, block) ==
    [s EXCEPT !.tree = SubElement(@, parent, [Element("p", "") EXCEPT !.text = JoinNL(block)])]

\* the entry at position index of the stack (counted from 0), None if none
StackAt(s, index) ==
    IF index + 1 > Len(s.stack) THEN None ELSE s.stack[index + 1]

\* the end of run, once parse_blocks is back.  id is the entry run worked for,
\* index its position when run looked it up, mark the entry run marks hungry
\* (self.stack[index] for a new directive, the entry itself for a resumed one)
CleanUp_hungry(s, id, index, mark, end) ==
    IF mark = None THEN Raise(s, "IndexError")
    ELSE [s EXCEPT !.ents[mark].hungry = TRUE]

CleanUp(s, id, index, mark, end) ==
    IF end
    THEN Logged(DelStack([s EXCEPT !.ents[id].closed = TRUE], index),
                [op |-> "close", id |-> id, gone |-> StackAt(s, index),
                 cached |-> s.cached_parent # None \/ s.cached_directive # <<>>,
                 working |-> s.working, modes |-> s.modes, stack |-> s.stack])
    ELSE IF mark = None THEN Raise(s, "IndexError")
    ELSE Logged([s EXCEPT !.ents[mark].hungry = TRUE],
                [op |-> "hungry", id |-> mark,
                 twin |-> \E i \in HungryAt(s, s.ents[mark].parent) : s.stack[i] # mark,
                 cached |-> s.cached_parent # None \/ s.cached_directive # <<>>,
                 working |-> s.working, modes |-> s.modes, stack |-> s.stack])

\* run once parse_blocks is back: the new branch marks self.stack[index]
\* hungry, the other branch the entry itself
Finished(s, id, index, new, end) ==
    IF s.error # "" THEN s
    ELSE CleanUp(s, id, index, IF new THEN StackAt(s, index) ELSE id, end)

Parsed_keep(s, working0) ==
    IF s.error # "" THEN s
    ELSE [s EXCEPT !.modes = SubSeq(@, 1, Len(@) - 1)]

\* parse_blocks once parser.parseChunk is back: the state of the parser and
\* self.working are put back, unless an exception is on its way
Parsed(s, working0) ==
    IF s.error # "" THEN s
    ELSE [s EXCEPT !.modes = SubSeq(@, 1, Len(@) - 1), !.working = working0]

RECURSIVE parseBlocks(_, _, _), Tested(_, _, _), Ran(_, _, _)
RECURSIVE parse_blocks(_, _, _), Added(_, _, _), Placed(_, _, _, _, _)
RECURSIVE run(_, _, _), Got(_, _, _), New(_, _, _), Created(_, _, _, _)
RECURSIVE Resumed(_, _, _), Found(_, _, _), Ours(_, _, _, _, _, _, _)

\* BlockParser.parseBlocks of the host: the directive processor is asked first,
\* and a block it turns down becomes a paragraph
parseBlocks(s, parent, blocks) ==
    IF blocks = <<>> \/ s.error # "" THEN s
    ELSE Tested(test(s, parent, blocks[1]), parent, blocks)

\* parseBlocks once test is back with t
Tested(t, parent, blocks) ==
    IF t.s.error # "" THEN t.s
    ELSE IF t.ret THEN Ran(run(t.s, parent, blocks), parent, blocks)
    ELSE parseBlocks(Paragraph(t.s, parent, blocks[1]), parent, Tail(blocks))

\* parseBlocks once run is back with r: a run that leaves the blocks as they
\* were would be called with them again for ever
Ran(r, parent, blocks) ==
    IF r.s.error = "" /\ r.blocks = blocks THEN Raise(r.s, "NoProgress")
    ELSE parseBlocks(Logged(r.s, [op |-> "ran", given |-> blocks, left |-> r.blocks]),
                     parent, r.blocks)

\* parse_blocks(directive, blocks, entry), entry being the object id
parse_blocks(s, blocks, id) ==
    IF blocks = <<>> \/ s.error # "" THEN s
    ELSE Added(on_add(s, id), blocks, id)

\* the body of the loop of parse_blocks once on_add is back with a
Added(a, blocks, id) ==
    IF a.target = None THEN Logged(a.s, [op |-> "full", id |-> id])
    ELSE parse_blocks(Placed(a.s, a.target,
                             ContentMode(a.s.tree[a.target].tag,
                                         is_atomic(a.s.ents[id].directive)),
                             blocks[1], id),
                      Tail(blocks), id)

\* the two branches of the loop of parse_blocks for block b
Placed(s, target, mode, b, id) ==
    LET ev == [op |-> "dispatch", id |-> id, target |-> target,
               mode |-> mode, closed |-> s.ents[id].closed,
               on |-> \E i \in 1..Len(s.stack) : s.stack[i] = id,
               working |-> s.working, modes |-> s.modes,
               flag |-> s.ents[id].hungry, block |-> b]
    IN  IF mode = "block"
        THEN Parsed(parseBlocks([s EXCEPT !.modes = Append(@, "directives"),
                                          !.working = id,
                                          !.log = Append(@, ev)],
                                target, <<b>>),
                    s.working)
        ELSE [s EXCEPT !.tree = AddText(@, target, b, mode = "atomic"),
                       !.log = Append(@, ev)]

\* run(parent, blocks): the state left and the host's list of blocks afterwards
run(s, parent, blocks) == Got(get_parent(s, parent), parent, blocks)

Got_given(g, parent, blocks) ==
    IF g.s.cached_directive # <<>>
    THEN New(g.s, parent, blocks)
    ELSE Resumed(g.s, parent, blocks)

\* run once get_parent is back with g
Got(g, parent, blocks) ==
    IF g.s.cached_directive # <<>>
    THEN New(g.s, IF g.res # None THEN g.res ELSE parent, blocks)
    ELSE Resumed(g.s, IF g.res # None THEN g.res ELSE parent, blocks)

New_keep(s, parent, blocks) ==
    Created(on_create([s EXCEPT !.tree = Loosen(@, parent)],
                      s.cached_directive[1].directive, parent),
            s.cached_directive[1], parent, Tail(blocks))

\* run for a new directive, up to on_create
New(s, parent, blocks) ==
    Created(on_create([s EXCEPT !.cached_directive = <<>>,
                                !.tree = Loosen(@, parent)],
                      s.cached_directive[1].directive, parent),
            s.cached_directive[1], parent, Tail(blocks))

Created_first(c, cached, parent, blocks) ==
    LET id == Len(c.s.ents) + 1
        entry == [directive |-> cached.directive, el |-> c.el, parent |-> parent,
                  hungry |-> FALSE, closed |-> FALSE]
        ev == [op |-> "open", id |-> id, parent |-> parent,
               twin |-> HungryAt(c.s, parent) # {}]
        blocks1 == (IF cached.block # <<>> THEN <<cached.block>> ELSE <<>>) \o blocks
    IN  Ours([c.s EXCEPT !.ents = Append(@, entry), !.stack = Append(@, id),
                         !.log = Append(@, ev)],
             id, 0, TRUE, cached.directive.length, blocks1,
             split_end(blocks1, cached.directive.length))

\* run for a new directive once on_create is back with c: cached is the pair
\* taken from cached_directive, blocks the list after blocks.pop(0)
Created(c, cached, parent, blocks) ==
    LET id == Len(c.s.ents) + 1
        entry == [directive |-> cached.directive, el |-> c.el, parent |-> parent,
                  hungry |-> FALSE, closed |-> FALSE]
        ev == [op |-> "open", id |-> id, parent |-> parent,
               twin |-> HungryAt(c.s, parent) # {}]
        blocks1 == (IF cached.block # <<>> THEN <<cached.block>> ELSE <<>>) \o blocks
    IN  Ours([c.s EXCEPT !.ents = Append(@, entry), !.stack = Append(@, id),
                         !.log = Append(@, ev)],
             id, Len(c.s.stack), TRUE, cached.directive.length, blocks1,
             split_end(blocks1, cached.directive.length))

Found_hungry(s, r, blocks) ==
    Ours(s, s.stack[r + 1], r, FALSE,
         s.ents[s.stack[r + 1]].directive.length, blocks,
         split_end(blocks, s.ents[s.stack[r + 1]].directive.length))

\* run for the hungry entry at position r of the stack
Found(s, r, blocks) ==
    Ours([s EXCEPT !.ents[s.stack[r + 1]].hungry = FALSE], s.stack[r + 1], r, FALSE,
         s.ents[s.stack[r + 1]].directive.length, blocks,
         split_end(blocks, s.ents[s.stack[r + 1]].directive.length))

\* run without a new directive: the loop over the stack, to the first hungry
\* entry under the parent
Resumed(s, parent, blocks) ==
    IF HungryAt(s, parent) = {} THEN [s |-> s, blocks |-> blocks]
    ELSE Found(s, Min(HungryAt(s, parent)) - 1, blocks)

Ours_keep(s, id, index, new, length, blocks, sp) ==
    [s |-> Finished(parse_blocks(Logged(s, [op |-> "split_end", id |-> id,
                                            length |-> length, blocks |-> blocks,
                                            good |-> sp.good, end |-> sp.end,
                                            fence |-> sp.fence,
                                            working |-> s.working,
                                            modes |-> s.modes,
                                            stack |-> s.stack]),
                                 sp.good, id),
                    id, index, new, sp.end),
     blocks |-> blocks]

\* run once split_end is back with sp, for the entry id found at position
\* index of the stack: parse_blocks, then the clean up.  new says which branch
\* of run this is
Ours(s, id, index, new, length, blocks, sp) ==
    [s |-> Finished(parse_blocks(Logged(s, [op |-> "split_end", id |-> id,
                                            length |-> length, blocks |-> blocks,
                                            good |-> sp.good, end |-> sp.end,
                                            fence |-> sp.fence,
                                            working |-> s.working,
                                            modes |-> s.modes,
                                            stack |-> s.stack]),
                                 sp.good, id),
                    id, index, new, sp.end),
     blocks |-> sp.bad]

\* _reset
reset_keep_trackers(s) ==
    [s EXCEPT !.stack = <<>>, !.ents = <<>>, !.working = None]

reset(s) ==
    [s EXCEPT !.stack = <<>>, !.ents = <<>>, !.working = None,
              !.trackers = [d \in directives |-> <<>>]]

----------------------------------------------------------------------------
(* The host *)

State ==
    [tree |-> tree, ents |-> ents, stack |-> stack, working |-> working,
     cached_parent |-> cached_parent, cached_directive |-> cached_directive,
     trackers |-> trackers, modes |-> modes, error |-> error, log |-> <<>>]

Root == 1

\* the processor and the host before the first call for a document
Fresh ==
    [tree |-> <<Element("div", "")>>, ents |-> <<>>, stack |-> <<>>,
     working |-> None, cached_parent |-> None, cached_directive |-> <<>>,
     trackers |-> [d \in directives |-> <<>>], modes |-> <<>>, error |-> "",
     log |-> <<>>]

\* the lines and blocks the host offers
S3 == Start(3, "details", "x")

S4 == Start(4, "details", "x")

Tab3 == Start(3, "tab", "x")

Unknown3 == Start(3, "unk", "x")

NoArg3 == Start(3, "details", "")

Lines == {S3, S4, Tab3, Unknown3, NoArg3, End(3), End(4), Text("a")}

CoreLines == {S3, End(3), Text("a")}

Blocks ==
    {<<l>> : l \in Lines} \cup {<<l1, l2>> : l1 \in CoreLines, l2 \in CoreLines}
    \cup {<<S4, S3>>, <<S4, End(3)>>, <<S3, Opt("zz: v")>>, <<S3, Opt("id: v")>>}

\* what one call of parseBlocks is given: one block, two blocks of one line,
\* or a directive of four colons holding one of three colons and ended
Inputs ==
    {<<b>> : b \in Blocks}
    \cup {<<<<l1>>, <<l2>>>> : l1 \in CoreLines, l2 \in CoreLines}
    \cup {<<<<S4, S3>>, <<End(4)>>>>}

HasStart(blocks) ==
    \E i \in 1..Len(blocks) : RE_START(blocks[i]) # 0

\* the item of the list at the end of the root, None if the root does not end
\* with a list: where ListIndentProcessor sends an indented block
LastItem(t) ==
    LET l == lastChild(t, Root)
    IN  IF l # None /\ t[l].tag = "ul" THEN lastChild(t, l) ELSE None

\* ListIndentProcessor.run before it parses the block into the item: the
\* text of a tight item moves into a paragraph
LooseItem(t, li) ==
    IF t[li].text # <<>>
    THEN SubElement([t EXCEPT ![li].text = <<>>], li,
                    [Element("p", "") EXCEPT !.text = t[li].text])
    ELSE t

\* ListIndentProcessor.run once the parser is back: parser.state.reset(),
\* unless an exception is on its way
Returned(s) ==
    IF s.error # "" THEN s ELSE [s EXCEPT !.modes = SubSeq(@, 1, Len(@) - 1)]

\* one call of the host into its block parser: the blocks of the document at
\* the root, or an indented block sent to the last list item
HostCall(s, parent, blocks) ==
    IF parent = Root THEN parseBlocks(s, Root, blocks)
    ELSE Returned(parseBlocks([s EXCEPT !.tree = LooseItem(@, parent),
                                        !.modes = Append(@, "detabbed")],
                              parent, blocks))

Install(s) ==
    /\ tree' = s.tree
    /\ ents' = s.ents
    /\ stack' = s.stack
    /\ working' = s.working
    /\ cached_parent' = s.cached_parent
    /\ cached_directive' = s.cached_directive
    /\ trackers' = s.trackers
    /\ modes' = s.modes
    /\ error' = s.error
    /\ log' = s.log

\* nothing parsed yet
Idle ==
    /\ tree = <<Element("div", "")>>
    /\ ents = <<>>
    /\ stack = <<>>
    /\ working = None
    /\ cached_parent = None
    /\ cached_directive = <<>>
    /\ trackers = [d \in directives |-> <<>>]
    /\ modes = <<>>
    /\ error = ""
    /\ log = <<>>
    /\ plain = TRUE
    /\ passes = 0

Init ==
    /\ Idle
    /\ fin = <<>>
    /\ fout = <<>>

\* the host parses blocks under the root or under the last list item
HostParse ==
    /\ error = ""
    /\ passes < MaxPasses
    /\ \E parent \in {Root, LastItem(tree)} \ {None} : \E blocks \in Inputs :
         \E s \in {HostCall(State, parent, blocks)} :
             /\ Len(s.tree) <= MaxNodes
             /\ Install(s)
             /\ plain' = (plain /\ ~HasStart(blocks))
    /\ passes' = passes + 1
    /\ UNCHANGED <<fin, fout>>

\* the host's list processor takes a block the engine turned down and starts
\* a list with one tight item at the end of the root
HostList ==
    /\ error = ""
    /\ LastItem(tree) = None
    /\ Len(tree) + 2 <= MaxNodes
    /\ \E t \in {test(State, Root, <<Text("- i")>>)} :
           /\ ~t.ret
           /\ Install([t.s EXCEPT !.tree =
                         SubElement(SubElement(@, Root, Element("ul", "")),
                                    Len(@) + 1,
                                    [Element("li", "") EXCEPT !.text = <<Text("i")>>])])
    /\ UNCHANGED <<plain, passes, fin, fout>>

\* DirectiveExtension.reset, between two documents: the host starts a new tree
Reset ==
    /\ Len(tree) > 1
    /\ LET s == reset(State)
       IN  Install([s EXCEPT !.tree = <<Element("div", "")>>, !.modes = <<>>,
                             !.error = "",
                             !.log = <<[op |-> "reset", stack |-> Len(stack),
                                        trackers |-> trackers, error |-> error]>>])
    /\ plain' = TRUE
    /\ passes' = 0
    /\ UNCHANGED <<fin, fout>>

Next == HostParse \/ HostList \/ Reset

Spec == Init /\ [][Next]_vars

----------------------------------------------------------------------------
(* A directive whose body the host hands over in two calls: after at most  *)
(* one earlier call, the host parses block fin[1].block under a parent,    *)
(* which leaves a directive hungry there, and later block fout[1] under    *)
(* the same parent.  fin keeps the state before the first of the two calls.*)

SplitPrepare ==
    /\ fin = <<>>
    /\ passes = 0
    /\ HostParse

SplitList ==
    /\ fin = <<>>
    /\ HostList

SplitFirst ==
    /\ fin = <<>>
    /\ error = ""
    /\ \E parent \in {Root, LastItem(tree)} \ {None} : \E b \in Blocks :
         \E s \in {HostCall(State, parent, <<b>>)} :
             /\ s.error = ""
             /\ HungryAt(s, parent) # {}
             /\ Install(s)
             /\ fin' = <<[s |-> State, parent |-> parent, block |-> b]>>
    /\ UNCHANGED <<plain, passes, fout>>

SplitSecond ==
    /\ fin # <<>>
    /\ fout = <<>>
    /\ \E b \in Blocks :
         /\ Install(HostCall(State, fin[1].parent, <<b>>))
         /\ fout' = <<b>>
    /\ UNCHANGED <<plain, passes, fin>>

NextSplit == SplitPrepare \/ SplitList \/ SplitFirst \/ SplitSecond

SpecSplit == Init /\ [][NextSplit]_vars

----------------------------------------------------------------------------
(* split_header on its own: fin is the block and the list of blocks it is  *)
(* called with, fout what it returns and leaves in the list                *)

YamlWords == {"id: v", "id: {n: v}", "- i", "[", "a"}

HeaderLines == {Yaml} \cup {Text(w) : w \in YamlWords} \cup {Opt(w) : w \in YamlWords}

\* blocks of up to MaxHeader lines; between the dash lines of the formal form
\* only plain lines
HeaderBlocks ==
    {b \in UNION {[1..n -> HeaderLines] : n \in 1..MaxHeader} :
        b[1] = Yaml => \A i \in 1..Len(b) : b[i].k # "opt"}

InitHeader ==
    /\ Idle
    /\ fin \in {<<[block |-> b, blocks |-> t]>> :
                  b \in HeaderBlocks, t \in {<<>>, <<<<Text("a")>>>>}}
    /\ fout = <<>>

HeaderSplit ==
    /\ fin # <<>>
    /\ fout = <<>>
    /\ fout' = <<split_header(fin[1].block, fin[1].blocks)>>
    /\ UNCHANGED <<tree, ents, stack, working, cached_parent, cached_directive,
                   trackers, modes, error, log, plain, passes, fin>>

SpecHeader == InitHeader /\ [][HeaderSplit]_vars

----------------------------------------------------------------------------
(* parse_blocks on its own, for a directive of any kind: its element is    *)
(* node 2, of tag fin[1].tag and holding text fin[1].text, its is_atomic() *)
(* answers fin[1].atomic, and it is given the one block fin[1].block       *)

DispatchTags == {"div", "details", "p", "summary", "pre", "script", "hr", "span"}

DispatchBlocks == {<<Text("a")>>, <<Text("a"), Text("a")>>, <<S3>>, <<End(3)>>}

InitDispatch ==
    /\ fin \in {<<[tag |-> t, atomic |-> a, text |-> x, block |-> b]>> :
                  t \in DispatchTags, a \in {"true", "false", "none"},
                  x \in {<<>>, <<Text("a")>>}, b \in DispatchBlocks}
    /\ fout = <<>>
    /\ tree = <<[Element("div", "") EXCEPT !.kids = <<2>>],
                [Element(fin[1].tag, "") EXCEPT !.text = fin[1].text]>>
    /\ ents = <<[directive |-> [NewDirective("details", 3) EXCEPT
                                   !.atomic = fin[1].atomic, !.args = "x"],
                 el |-> 2, parent |-> Root, hungry |-> FALSE, closed |-> FALSE]>>
    /\ stack = <<1>>
    /\ working = None
    /\ cached_parent = None
    /\ cached_directive = <<>>
    /\ trackers = [d \in directives |-> <<>>]
    /\ modes = <<>>
    /\ error = ""
    /\ log = <<>>
    /\ plain = FALSE
    /\ passes = 0

Dispatch ==
    /\ fout = <<>>
    /\ Install(parse_blocks(State, <<fin[1].block>>, 1))
    /\ fout' = <<"done">>
    /\ UNCHANGED <<plain, passes, fin>>

SpecDispatch == InitDispatch /\ [][Dispatch]_vars

----------------------------------------------------------------------------
(* parse_blocks called for one entry with a list of blocks, and then again  *)
(* with one more block, as two calls of run do: the entry's element is node *)
(* 2, of tag fin[1].tag and holding text fin[1].text; fout lists the blocks *)
(* given so far                                                             *)

TextTags == {"p", "summary", "pre", "span", "div"}

TextBlocks == {<<Text("a")>>, <<Text("a"), Text("b")>>, <<End(3)>>}

InitText ==
    /\ fin \in {<<[tag |-> t, atomic |-> a, text |-> x]>> :
                  t \in TextTags, a \in {"true", "false", "none"},
                  x \in {<<>>, <<Text("t")>>}}
    /\ fout = <<>>
    /\ tree = <<[Element("div", "") EXCEPT !.kids = <<2>>],
                [Element(fin[1].tag, "") EXCEPT !.text = fin[1].text]>>
    /\ ents = <<[directive |-> [NewDirective("details", 3) EXCEPT
                                   !.atomic = fin[1].atomic, !.args = "x"],
                 el |-> 2, parent |-> Root, hungry |-> FALSE, closed |-> FALSE]>>
    /\ stack = <<1>>
    /\ working = None
    /\ cached_parent = None
    /\ cached_directive = <<>>
    /\ trackers = [d \in directives |-> <<>>]
    /\ modes = <<>>
    /\ error = ""
    /\ log = <<>>
    /\ plain = FALSE
    /\ passes = 0

\* the first call: one or two blocks
TextFirst ==
    /\ fout = <<>>
    /\ \E bs \in {<<b>> : b \in TextBlocks}
                 \cup {<<b1, b2>> : b1 \in TextBlocks, b2 \in TextBlocks} :
         /\ Install(parse_blocks(State, bs, 1))
         /\ fout' = bs
    /\ UNCHANGED <<plain, passes, fin>>

\* a later call with one more block
TextMore ==
    /\ fout # <<>>
    /\ Len(fout) < 3
    /\ \E b \in TextBlocks :
         /\ Install(parse_blocks(State, <<b>>, 1))
         /\ fout' = Append(fout, b)
    /\ UNCHANGED <<plain, passes, fin>>

NextText == TextFirst \/ TextMore

SpecText == InitText /\ [][NextText]_vars

----------------------------------------------------------------------------
(* A directive whose add step returns None.  The processor was loaded with *)
(* a directive of kind "single", a call of the host opened one at the root *)
(* with a block that held only its start fence, and the host goes on       *)

InitAdd ==
    /\ tree = <<[Element("div", "") EXCEPT !.kids = <<2>>], Element("div", "")>>
    /\ ents = <<[directive |-> [NewDirective("single", 3) EXCEPT !.args = "x"],
                 el |-> 2, parent |-> Root, hungry |-> TRUE, closed |-> FALSE]>>
    /\ stack = <<1>>
    /\ working = None
    /\ cached_parent = None
    /\ cached_directive = <<>>
    /\ trackers = [d \in directives |-> <<>>]
    /\ modes = <<>>
    /\ error = ""
    /\ log = <<>>
    /\ plain = FALSE
    /\ passes = 0
    /\ fin = <<>>
    /\ fout = <<>>

\* the host parses blocks under the root
AddParse ==
    /\ error = ""
    /\ passes < MaxPasses
    /\ \E blocks \in Inputs :
         \E s \in {HostCall(State, Root, blocks)} :
             /\ Len(s.tree) <= MaxNodes
             /\ Install(s)
    /\ passes' = passes + 1
    /\ UNCHANGED <<plain, fin, fout>>

SpecAdd == InitAdd /\ [][AddParse]_vars

----------------------------------------------------------------------------
(* One block of three lines given to a fresh processor: fin[1] is the      *)
(* block, a first line that names the directive "note" with or without the *)
(* braces, a line of content and a last line                               *)

NoteFirst ==
    {Text("::: note"), Start(3, "note", ""), Start(4, "note", ""),
     Start(3, "note", "x"), Start(3, "details", "")}

NoteSecond == {Text("body line"), Text("a"), End(3), Opt("id: v")}

NoteLast == {End(3), End(4), Text("a"), Start(3, "note", "")}

InitNote ==
    /\ Idle
    /\ fin \in {<<<<l1, l2, l3>>>> : l1 \in NoteFirst, l2 \in NoteSecond, l3 \in NoteLast}
    /\ fout = <<>>

NoteParse ==
    /\ fout = <<>>
    /\ Install(HostCall(State, Root, <<fin[1]>>))
    /\ fout' = <<"done">>
    /\ UNCHANGED <<plain, passes, fin>>

SpecNote == InitNote /\ [][NoteParse]_vars

----------------------------------------------------------------------------
(* The html block (pymdownx/blocks/html.py).  A selector is modelled by    *)
(* its tokens: "ident" where RE_IDENT matches, "id", "class" and "attr"    *)
(* where the pattern of that name matches, "junk" where none does.  fin[1] *)
(* is the argument and the value given for the option markdown (<<>> when  *)
(* the header does not give it), fout[1] what the block makes of them      *)

MaxTokens == 2

\* parse_selectors(selector): FALSE where it raises ValueError
parse_selectors(selector) ==
    /\ selector # <<>>
    /\ selector[1] = "ident"
    /\ \A i \in 2..Len(selector) : selector[i] \in {"id", "class", "attr"}

\* HTML.on_parse
on_parse(argument) == parse_selectors(argument)

\* the values the validator of HTML.OPTIONS['markdown'] is built with
markdown_values == {"auto", "inline", "block", "raw"}

\* the default of HTML.OPTIONS['markdown']
markdown_default == "auto"

\* type_string_in(accepted): the validator takes a value of the list and
\* refuses any other
type_string_in(accepted, value) == value \in accepted

\* the options of the block once the header was read: status FALSE when the
\* validator refused the value
HTML_options(given) ==
    IF given = <<>> THEN [status |-> TRUE, markdown |-> markdown_default]
    ELSE IF type_string_in(markdown_values, given[1])
    THEN [status |-> TRUE, markdown |-> given[1]]
    ELSE [status |-> FALSE, markdown |-> markdown_default]

\* HTML.on_markdown
on_markdown(options) == options.markdown

Selectors ==
    UNION {[1..n -> {"ident", "id", "class", "attr", "junk"}] : n \in 0..MaxTokens}

MarkdownGiven ==
    {<<>>} \cup {<<v>> : v \in {"auto", "span", "inline", "block", "raw", "html", "", "none"}}

InitHTML ==
    /\ Idle
    /\ fin \in {<<[argument |-> a, markdown |-> g]>> :
                  a \in Selectors, g \in MarkdownGiven}
    /\ fout = <<>>

\* the block is configured from its argument and its options
HTMLConfigure ==
    /\ fout = <<>>
    /\ fout' = <<[parsed |-> on_parse(fin[1].argument),
                  status |-> HTML_options(fin[1].markdown).status,
                  markdown |-> on_markdown(HTML_options(fin[1].markdown))]>>
    /\ UNCHANGED <<tree, ents, stack, working, cached_parent, cached_directive,
                   trackers, modes, error, log, plain, passes, fin>>

SpecHTML == InitHTML /\ [][HTMLConfigure]_vars

----------------------------------------------------------------------------
(* split_end by itself: a list of up to three blocks of one or two lines,  *)
(* with end fences of three and four colons, for a directive of three or   *)
(* four colons.  fin[1] is what split_end is given, fout[1] what it gives  *)
(* back, bad being the list of blocks as it is left.                       *)

EndLines == {End(3), End(4), Text("a")}

EndBlocks == {<<l>> : l \in EndLines} \cup {<<l1, l2>> : l1 \in EndLines, l2 \in EndLines}

EndLists ==
    {<<>>} \cup {<<b>> : b \in EndBlocks}
    \cup {<<b1, b2>> : b1 \in EndBlocks, b2 \in EndBlocks}
    \cup {<<b1, b2, b3>> : b1 \in EndBlocks, b2 \in EndBlocks, b3 \in EndBlocks}

InitEnd ==
    /\ Idle
    /\ fin \in {<<[blocks |-> bs, length |-> n]>> : bs \in EndLists, n \in {3, 4}}
    /\ fout = <<>>

\* split_end is called with the blocks and the length
SplitEnd ==
    /\ fout = <<>>
    /\ fout' = <<split_end(fin[1].blocks, fin[1].length)>>
    /\ UNCHANGED <<tree, ents, stack, working, cached_parent, cached_directive,
                   trackers, modes, error, log, plain, passes, fin>>

SpecEnd == InitEnd /\ [][SplitEnd]_vars

----------------------------------------------------------------------------
(* Tabs within one document: the host parses one block at a time at the    *)
(* root, a tab that is closed in its block, one that asks for a new group, *)
(* one that is left open, a details directive, text or an end fence.       *)

\* the calls of the host within the document
MaxTabCalls == 4

TabBlocks ==
    {<<Tab3, End(3)>>, <<Tab3, Opt("new: true"), End(3)>>, <<Tab3>>,
     <<S3, End(3)>>, <<Text("a")>>, <<End(3)>>}

\* the host parses one more block of the document
TabParse ==
    /\ error = ""
    /\ passes < MaxTabCalls
    /\ \E b \in TabBlocks : Install(HostCall(State, Root, <<b>>))
    /\ passes' = passes + 1
    /\ UNCHANGED <<plain, fin, fout>>

SpecTabs == Init /\ [][TabParse]_vars

----------------------------------------------------------------------------
(* Properties *)

\* the lines of a list of blocks, in order
RECURSIVE Flat(_)
Flat(blocks) ==
    IF blocks = <<>> THEN <<>> ELSE Head(blocks) \o Flat(Tail(blocks))

\* the events of the last host call that are of kind op
Events(op) == {i \in 1..Len(log) : log[i].op = op}

\* C1: an end fence shorter than the start fence of a directive never closes
\* it.  Whenever split_end works for a directive of length k, the blocks it
\* keeps for the directive are the lines before the first end fence of length
\* >= k (all lines if there is none), so a shorter end fence stays in the
\* content; and an entry leaves the stack only in a run whose split_end found
\* an end fence at least as long as the entry's start fence.
C1_ShortEndFenceStays ==
    /\ \A i \in Events("split_end") :
         LET ev == log[i]
             all == Flat(ev.blocks)
             kept == Flat(ev.good)
         IN  /\ Len(kept) <= Len(all)
             /\ kept = SubSeq(all, 1, Len(kept))
             /\ \A j \in 1..Len(kept) :
                  ~(kept[j].k = "end" /\ kept[j].n >= ev.length)
             /\ IF ev.end
                THEN /\ Len(kept) < Len(all)
                     /\ all[Len(kept) + 1].k = "end"
                     /\ all[Len(kept) + 1].n = ev.fence
                     /\ ev.fence >= ev.length
                ELSE kept = all
    /\ \A j \in Events("close") :
         /\ log[j].gone = log[j].id
         /\ \E i \in Events("split_end") :
              /\ i < j
              /\ log[i].id = log[j].gone
              /\ log[i].end
              /\ log[i].fence >= ents[log[j].gone].directive.length

\* a directive of four colons was given an end fence of three colons, which
\* stayed in its content, and the directive is still on the stack
C1_Witness ==
    \E i \in Events("split_end") :
        /\ log[i].length = 4
        /\ \E j \in 1..Len(Flat(log[i].good)) :
             Flat(log[i].good)[j].k = "end" /\ Flat(log[i].good)[j].n = 3
        /\ \E n \in 1..Len(stack) : stack[n] = log[i].id

\* entry n was created inside the element of entry o
Nested(n, o) == n # o /\ Descends(tree, ents[n].parent, ents[o].el)

\* C2: an end fence closes the innermost open directive it is long enough
\* for, so when a directive has been closed every directive nested in it with
\* a start fence at least as long (j >= k) has been closed before it
C2_InnermostClosesFirst ==
    \A o \in 1..Len(ents) : \A n \in 1..Len(ents) :
        (/\ ents[o].closed
         /\ Nested(n, o)
         /\ ents[n].directive.length >= ents[o].directive.length)
        => ents[n].closed

\* the entries on the stack of state s, bottom first
Entries(s) == [i \in 1..Len(s.stack) |-> s.ents[s.stack[i]]]

\* C3: when the host hands a directive's body over in two calls under the
\* same parent, the first leaving the directive hungry, the tree and the
\* stack at the end are those of one call that is given both blocks
C3_TwoCallsAsOne ==
    fout # <<>> =>
        LET one == HostCall(fin[1].s, fin[1].parent, <<fin[1].block, fout[1]>>)
        IN  /\ one.tree = tree
            /\ Entries(one) = Entries(State)
            /\ one.error = error

\* the second call went into a directive opened in a list item, and closed it
C3_Witness ==
    /\ fout # <<>>
    /\ fin[1].parent # Root
    /\ RE_START(fin[1].block) # 0
    /\ Events("close") # {}
    /\ \E i \in Events("dispatch") : log[i].mode = "block"
    /\ stack = <<>>

\* C4: for every node of the tree at most one entry of the stack is hungry
\* with that node as its parent, and run never pushes an entry under a parent
\* that already has a hungry entry, nor marks an entry hungry beside another
C4_OneHungryPerParent ==
    /\ \A n \in 1..Len(tree) : Cardinality(HungryAt(State, n)) <= 1
    /\ \A i \in Events("open") \cup Events("hungry") : ~log[i].twin

\* run pushed an entry while another entry was on the stack, and two entries
\* are hungry, each under its own parent
C4_Witness ==
    /\ Events("open") # {}
    /\ \E i \in 1..Len(stack) : \E j \in 1..Len(stack) :
         /\ i # j
         /\ ents[stack[i]].hungry
         /\ ents[stack[j]].hungry
         /\ ents[stack[i]].parent # ents[stack[j]].parent

\* C5: once a directive is closed, no later call of the host places a block
\* in the subtree of its element, unless a new directive was opened in that
\* call before
C5_ClosedStaysShut ==
    \A i \in Events("dispatch") : \A o \in 1..Len(ents) :
        (/\ ents[o].closed
         /\ \A j \in Events("close") : log[j].id # o
         /\ Descends(tree, log[i].target, ents[o].el))
        => \E j \in Events("open") : j < i

C7_PlainDocumentUntouched ==
    plain =>
        /\ stack = <<>>
        /\ ents = <<>>
        /\ cached_parent = None
        /\ cached_directive = <<>>
        /\ \A i \in 1..Len(log) :
             log[i].op = "reset"
             \/ (log[i].op = "test" /\ ~log[i].ret /\ log[i].kept)
        /\ \A n \in 1..Len(tree) : tree[n].tag \in {"div", "p", "ul", "li"}

\* two calls offered blocks without a start fence, one of them an end fence
C7_Witness ==
    /\ plain
    /\ passes = 2
    /\ Events("test") # {}
    /\ \E n \in 1..Len(tree) : \E j \in 1..Len(tree[n].text) :
         tree[n].text[j].k = "end"

\* C8: after reset the stack is empty, no directive is active, every
\* registered directive has an empty tracker, and the processor is in the
\* state it was in before the first parse, so a parse of the same input
\* builds the same tree and the same trackers (the count of tab groups
\* starts again)
C8_ResetStartsOver ==
    (Len(log) = 1 /\ log[1].op = "reset") =>
        /\ stack = <<>>
        /\ working = None
        /\ trackers = [d \in directives |-> <<>>]
        /\ State = Fresh
        /\ HostCall(State, Root, <<<<Tab3>>>>).trackers["tab"] = <<1>>

\* reset came after calls that left a tab hungry and the count of tab groups
\* advanced
C8_Witness ==
    /\ Len(log) = 1
    /\ log[1].op = "reset"
    /\ log[1].stack > 0
    /\ log[1].trackers["tab"] = <<1>>

\* the YAML text of the header a block starts with: the lines between the
\* two dash lines, or the run of colon lines the block begins with
HeaderText(block) ==
    IF block[1] = Yaml
    THEN [i \in 1..(RE_YAML_END(block) - 2) |-> block[i + 1].w]
    ELSE LET n == Min({i \in 1..(Len(block) + 1) :
                         i = Len(block) + 1 \/ block[i].k # "opt"}) - 1
         IN  [i \in 1..n |-> block[i].w]

\* the block starts with a header: dash lines, closed or not, or a colon line
HasHeader(block) == block[1] = Yaml \/ block[1].k = "opt"

Unclosed(block) == block[1] = Yaml /\ RE_YAML_END(block) = 0

\* split_header took no header off: no options, the block back in front
NoHeader(inp, out) ==
    out.options = {} /\ out.blocks = <<inp.block>> \o inp.blocks

\* C9 (amended): when the header of the block is not closed, is not valid
\* YAML, or parses to something that is not a mapping (nothing, a scalar, a
\* list), split_header returns no options and puts the block, as it was, at
\* the front of the blocks
C9_NoMappingNoHeader ==
    fout # <<>> =>
        ((/\ HasHeader(fin[1].block)
          /\ (\/ Unclosed(fin[1].block)
              \/ yaml_load(HeaderText(fin[1].block)).kind # "mapping"))
         => NoHeader(fin[1], fout[1]))

\* a closed header that holds a list was handed back with the block
C9_Witness ==
    /\ fout # <<>>
    /\ fin[1].block = <<Yaml, Text("- i"), Yaml>>
    /\ fin[1].blocks # <<>>
    /\ NoHeader(fin[1], fout[1])

\* C9: the same for every header that is not a flat mapping of keys to
\* values, a mapping with a mapping as a value among them
C9_NotFlatNoHeader ==
    fout # <<>> =>
        ((/\ HasHeader(fin[1].block)
          /\ (\/ Unclosed(fin[1].block)
              \/ yaml_load(HeaderText(fin[1].block)).kind # "mapping"
              \/ \E w \in yaml_load(HeaderText(fin[1].block)).items : ~FlatValue(w)))
         => NoHeader(fin[1], fout[1]))

\* what became of the block given to parse_blocks: it went to the host's
\* block parser ("block": the element has children, its text is as before),
\* or it was added to the element's text, as an AtomicString ("atomic") or
\* as a plain string ("span")
Handling ==
    IF tree[2].text = fin[1].text /\ tree[2].kids # <<>> THEN "block"
    ELSE IF tree[2].text = fin[1].text \o JoinNL(fin[1].block) /\ tree[2].kids = <<>>
    THEN (IF tree[2].atomic THEN "atomic" ELSE "span")
    ELSE "other"

\* C10 (amended): is_atomic() True stores the block as atomic text whatever
\* the tag; None leaves it to the tag (atomic text for a raw tag, the host's
\* block parser for a block tag, plain text for any other); False only rules
\* atomic text out: a block tag gets the host's block parser, any other tag
\* gets the block as plain text
C10_AtomicDecides ==
    fout # <<>> =>
        Handling =
            CASE fin[1].atomic = "true" -> "atomic"
              [] fin[1].atomic = "false" ->
                   IF fin[1].tag \in block_tags THEN "block" ELSE "span"
              [] fin[1].atomic = "none" ->
                   IF fin[1].tag \in raw_tags THEN "atomic"
                   ELSE IF fin[1].tag \in block_tags THEN "block" ELSE "span"

\* is_atomic() is True and the element a div: the block was added to the text
\* the div had, as atomic text
C10_Witness ==
    /\ fout # <<>>
    /\ fin[1].atomic = "true"
    /\ fin[1].tag = "div"
    /\ fin[1].text # <<>>
    /\ Handling = "atomic"

\* C10: True gives atomic text, False the host's block parser whatever the
\* tag is, None what the tag says
C10_FalseForcesBlocks ==
    fout # <<>> =>
        Handling =
            CASE fin[1].atomic = "true" -> "atomic"
              [] fin[1].atomic = "false" -> "block"
              [] fin[1].atomic = "none" ->
                   IF fin[1].tag \in raw_tags THEN "atomic"
                   ELSE IF fin[1].tag \in block_tags THEN "block" ELSE "span"

\* the texts joined by a blank line (two line breaks), empty texts left out
RECURSIVE BlankLineJoin(_)
BlankLineJoin(texts) ==
    IF texts = <<>> THEN <<>>
    ELSE IF Head(texts) = <<>> THEN BlankLineJoin(Tail(texts))
    ELSE IF BlankLineJoin(Tail(texts)) = <<>> THEN Head(texts)
    ELSE Head(texts) \o <<NL, NL>> \o BlankLineJoin(Tail(texts))

\* C11: when blocks b1..bn went, in one call or several, to a target that
\* takes text (atomic or span handling), its text is the text it had followed
\* by b1..bn, consecutive pieces joined by a blank line
C11_BlankLineJoined ==
    (fout # <<>> /\ ContentMode(fin[1].tag, fin[1].atomic) # "block") =>
        tree[2].text =
            BlankLineJoin(<<fin[1].text>> \o [i \in 1..Len(fout) |-> JoinNL(fout[i])])

\* C12: when on_add returned None for an entry, no block is dispatched to the
\* entry afterwards, and after the call the entry is not left hungry on the
\* stack, whether the blocks held an end fence for it or not
C12_EmptyAddCloses ==
    \A i \in Events("full") :
        /\ \A j \in Events("dispatch") : log[j].id = log[i].id => j < i
        /\ ~(\E n \in 1..Len(stack) :
               stack[n] = log[i].id /\ ents[log[i].id].hungry)

\* C13: in shorthand form the header is the run of colon lines the block
\* starts with: the options are what that run alone gives, a colon line after
\* the first line that is not one adds nothing, and a block whose first line
\* is not a colon line has no header
C13_LeadingRunOnly ==
    (fout # <<>> /\ ~RE_YAML_START(fin[1].block)) =>
        /\ fout[1].options =
              (IF yaml_load(HeaderText(fin[1].block)).kind = "mapping"
               THEN yaml_load(HeaderText(fin[1].block)).items ELSE {})
        /\ ~RE_YAML_LINE(fin[1].block[1]) => NoHeader(fin[1], fout[1])

\* the tree of the scenario: under the root one container of "note" with one
\* paragraph that holds the line w
NoteTree(w) ==
    /\ Len(tree) = 3
    /\ tree[Root].kids = <<2>>
    /\ tree[2].tag = "div" /\ tree[2].cls = "note" /\ tree[2].kids = <<3>>
    /\ tree[2].text = <<>>
    /\ tree[3].tag = "p" /\ tree[3].kids = <<>> /\ tree[3].text = <<Text(w)>>

\* C14 (amended): with "note" registered, requiring no argument and taking
\* blocks, a block of a start fence of n colons that names note in braces and
\* gives no argument, a line of text and an end fence of at least n colons is claimed by test, and
\* run leaves one container with one paragraph holding the line and no entry
\* on the stack
C14_NoteInBraces ==
    (/\ fout # <<>>
     /\ fin[1][1].k = "start" /\ fin[1][1].w = "note" /\ fin[1][1].a = ""
     /\ fin[1][2].k = "text"
     /\ fin[1][3].k = "end" /\ fin[1][3].n >= fin[1][1].n)
    => /\ NoteTree(fin[1][2].w)
       /\ stack = <<>>
       /\ error = ""
       /\ log[1].op = "test" /\ log[1].ret

\* the scenario with the braces: '::: {note}' / 'body line' / ':::'
C14_Witness ==
    /\ fout # <<>>
    /\ fin[1] = <<Start(3, "note", ""), Text("body line"), End(3)>>
    /\ NoteTree("body line")
    /\ stack = <<>>
    /\ Events("close") # {}

\* C14: the same for the input '::: note' / 'body line' / ':::'
C14_NoteScenario ==
    (fout # <<>> /\ fin[1] = <<Text("::: note"), Text("body line"), End(3)>>)
    => /\ NoteTree("body line")
       /\ stack = <<>>
       /\ log[1].op = "test" /\ log[1].ret

\* C15: the option markdown of the html block takes the four values auto,
\* span, block and raw and no other, and is auto when it is not given
C15_FourValues ==
    fout # <<>> =>
        IF fin[1].markdown = <<>> THEN fout[1].status /\ fout[1].markdown = "auto"
        ELSE fout[1].status <=> fin[1].markdown[1] \in {"auto", "span", "block", "raw"}

\* the blocks hold an end fence of at least length colons
HasEnd(blocks, length) ==
    \E j \in 1..Len(Flat(blocks)) :
        Flat(blocks)[j].k = "end" /\ Flat(blocks)[j].n >= length

\* the event that ends the run which logged split_end event i: the first
\* later clean up of the same entry, 0 if there is none
CleanUpOf(i) ==
    LET J == {j \in Events("close") \cup Events("hungry") :
                j > i /\ log[j].id = log[i].id}
    IN  IF J = {} THEN 0 ELSE Min(J)

OnStack(id) == \E n \in 1..Len(stack) : stack[n] = id

\* C16, for the runs of the last host call: a run that opened or resumed an
\* entry ends by deleting it if the blocks split_end was given hold an end
\* fence of at least the directive's length, and by marking it hungry if
\* not; after its last run the entry is off the stack in the first case, on
\* it and hungry in the second
C16_RunsEndRight ==
    \A i \in Events("split_end") :
        /\ CleanUpOf(i) # 0
        /\ log[CleanUpOf(i)].op = "close" <=> HasEnd(log[i].blocks, log[i].length)
        /\ (\A k \in Events("split_end") : log[k].id = log[i].id => k <= i)
              => IF HasEnd(log[i].blocks, log[i].length)
                 THEN ~OnStack(log[i].id)
                 ELSE OnStack(log[i].id) /\ ents[log[i].id].hungry

\* C16: the entry a run worked for is off the stack exactly if split_end
\* found an end fence of sufficient length, and otherwise on it and hungry;
\* and an entry leaves the stack only in such a run, or at reset
C16_RemovedIffEndFence ==
    /\ []C16_RunsEndRight
    /\ [][\A n \in 1..Len(stack) :
            \/ \E m \in 1..Len(stack') : stack'[m] = stack[n]
            \/ (Len(log') = 1 /\ log'[1].op = "reset")
            \/ \E j \in 1..Len(log') : \E i \in 1..(j - 1) :
                 /\ log'[j].op = "close" /\ log'[j].gone = stack[n]
                 /\ log'[i].op = "split_end" /\ log'[i].id = stack[n]
                 /\ HasEnd(log'[i].blocks, log'[i].length)]_vars

\* a call in which one entry was resumed and deleted while another stays on
\* the stack, hungry
C16_Witness ==
    /\ \E j \in Events("close") : \E i \in Events("split_end") :
         i < j /\ log[i].id = log[j].id /\ ~OnStack(log[j].id)
         /\ \E k \in Events("test") : k < i /\ log[k].why = "hungry"
    /\ \E n \in 1..Len(stack) : ents[stack[n]].hungry

\* C17: cached_parent and cached_directive are set by test only and used up
\* by the run that follows at once.  Both are empty when any test is entered,
\* at the top level or under parse_blocks, both are empty when any run is
\* through with its clean up, and both are empty between the calls of the host
C17_CachesEmptied ==
    /\ cached_parent = None
    /\ cached_directive = <<>>
    /\ \A i \in Events("test") : ~log[i].stale
    /\ \A i \in Events("close") \cup Events("hungry") : ~log[i].cached

\* one call in which a test claimed a block as a continuation, a test under
\* parse_blocks accepted a new directive, and runs ended both ways
C17_Witness ==
    /\ \E i \in Events("test") : log[i].why = "hungry"
         /\ \E d \in Events("dispatch") : \E j \in Events("test") :
              i < d /\ d < j /\ log[j].why = "new"
    /\ Events("close") # {}
    /\ Events("hungry") # {}

\* C18: a block sent to a target that takes blocks is parsed with the mode
\* 'directives' on top of the host's modes and with the entry as the working
\* entry, and for no longer: the test the host makes first with that block
\* sees both, every dispatch of one call of parse_blocks starts from the
\* modes and the working entry parse_blocks was entered with, and so does the
\* clean up that follows its return, at any depth
C18_ModeAndWorkingRestored ==
    /\ \A d \in Events("dispatch") :
         log[d].mode = "block" =>
            /\ d + 1 \in Events("test")
            /\ log[d + 1].parent = log[d].target
            /\ log[d + 1].working = log[d].id
            /\ log[d + 1].modes = Append(log[d].modes, "directives")
    /\ \A i \in Events("split_end") :
         /\ CleanUpOf(i) # 0
         /\ log[CleanUpOf(i)].working = log[i].working
         /\ log[CleanUpOf(i)].modes = log[i].modes
         /\ \A d \in Events("dispatch") :
              (i < d /\ d < CleanUpOf(i) /\ log[d].id = log[i].id)
                 => log[d].working = log[i].working /\ log[d].modes = log[i].modes
    /\ working = None
    /\ modes = <<>>

\* a block went to a directive inside a directive: the test under the inner
\* one saw two modes and the inner entry at work, and the outer parse_blocks
\* went on to its clean up
C18_Witness ==
    \E k \in Events("test") : \E d \in Events("dispatch") :
        /\ log[k].modes = <<"directives", "directives">>
        /\ log[d].mode = "block"
        /\ log[d].modes = <<>>
        /\ d < k
        /\ log[k].working # log[d].id
        /\ \E j \in Events("hungry") : k < j /\ log[j].id = log[d].id

\* the places of the chain of test event k that are the recorded parent of a
\* hungry entry
Hits(k) ==
    {n \in 1..Len(log[k].chain) :
        \E m \in 1..Len(log[k].hungry) : log[k].hungry[m].parent = log[k].chain[n]}

\* the hungry entries of test event k whose recorded parent is node
Under(k, node) ==
    {m \in 1..Len(log[k].hungry) : log[k].hungry[m].parent = node}

\* C19: get_parent called by test with nothing cached finds the first element
\* of p, lastChild(p), lastChild(lastChild(p)), ... that is the recorded
\* parent of a hungry entry of the stack, and none when the chain has none;
\* when test has claimed the block for that reason, the run that follows
\* works for the first hungry entry of the stack whose parent is that element
C19_FirstOnChainFirstOnStack ==
    \A k \in Events("test") :
        /\ ~log[k].stale
        /\ (log[k].why = "hungry") = (Hits(k) # {})
        /\ log[k].why = "hungry" =>
              /\ log[k].ret
              /\ log[k].found = log[k].chain[Min(Hits(k))]
              /\ Under(k, log[k].found) # {}
              /\ k + 1 \in Events("split_end")
              /\ log[k + 1].id = log[k].hungry[Min(Under(k, log[k].found))].id
        /\ log[k].why # "hungry" => log[k].found = None

\* a test found the parent of a hungry entry below the element it was given,
\* past an element that is the parent of none, with two entries hungry
C19_Witness ==
    \E k \in Events("test") :
        /\ log[k].why = "hungry"
        /\ Min(Hits(k)) > 1
        /\ Len(log[k].hungry) >= 2

\* the events between split_end event i and the clean up of its run: what
\* happens while parse_blocks works for the entry of i
During(i) == {k \in 1..Len(log) : i < k /\ k < CleanUpOf(i)}

\* C20: from the start of parse_blocks for an entry to its return the entry
\* is not hungry.  Each of its blocks is dispatched with the flag False, no
\* test made meanwhile finds it among the hungry entries, and no run entered
\* meanwhile works for it
C20_ActiveNotHungry ==
    \A i \in Events("split_end") :
        /\ CleanUpOf(i) # 0
        /\ \A k \in During(i) :
             /\ (log[k].op = "dispatch" /\ log[k].id = log[i].id) => ~log[k].flag
             /\ log[k].op = "test" =>
                   \A m \in 1..Len(log[k].hungry) : log[k].hungry[m].id # log[i].id
             /\ log[k].op = "split_end" => log[k].id # log[i].id
        /\ \A k \in Events("dispatch") :
             (log[k].id = log[i].id /\ i < k
              /\ \A j \in Events("split_end") : log[j].id = log[i].id => j <= i)
                => k \in During(i)

\* a hungry entry was resumed, and while its block was parsed a test found
\* another entry hungry and a run resumed that one
C20_Witness ==
    \E i \in Events("split_end") :
        /\ i - 1 \in Events("test")
        /\ log[i - 1].why = "hungry"
        /\ \E m \in 1..Len(log[i - 1].hungry) : log[i - 1].hungry[m].id = log[i].id
        /\ \E k \in During(i) :
             /\ log[k].op = "test"
             /\ log[k].why = "hungry"
             /\ k + 1 \in During(i)
             /\ log[k + 1].op = "split_end"
        /\ \E d \in During(i) : log[d].op = "dispatch" /\ log[d].id = log[i].id

\* the place of entry id in the stack st, 0 if it is not there
PlaceOf(st, id) ==
    IF \E n \in 1..Len(st) : st[n] = id
    THEN Min({n \in 1..Len(st) : st[n] = id}) ELSE 0

\* C21: the index run took before parse_blocks still names its entry when
\* parse_blocks is back.  Whatever was opened, left hungry or deleted
\* meanwhile, the stack up to and including that entry is as it was, and the
\* entry a run deletes is the one it worked for
C21_IndexStillNamesEntry ==
    \A i \in Events("split_end") :
        /\ PlaceOf(log[i].stack, log[i].id) # 0
        /\ CleanUpOf(i) # 0
        /\ SubSeq(log[CleanUpOf(i)].stack, 1, PlaceOf(log[i].stack, log[i].id))
             = SubSeq(log[i].stack, 1, PlaceOf(log[i].stack, log[i].id))
        /\ log[CleanUpOf(i)].op = "close" => log[CleanUpOf(i)].gone = log[i].id

\* a run for an entry that is not the first of the stack deleted it after a
\* directive was opened and another run cleaned up inside its parse_blocks
C21_Witness ==
    \E i \in Events("split_end") :
        /\ PlaceOf(log[i].stack, log[i].id) > 1
        /\ CleanUpOf(i) # 0
        /\ log[CleanUpOf(i)].op = "close"
        /\ \E k \in Events("open") : i < k /\ k < CleanUpOf(i)
        /\ \E k \in Events("close") \cup Events("hungry") : i < k /\ k < CleanUpOf(i)

\* the places of the lines of blocks that are an end fence of at least length
\* colons
EndsIn(blocks, length) ==
    {j \in 1..Len(Flat(blocks)) : Flat(blocks)[j].k = "end" /\ Flat(blocks)[j].n >= length}

\* C22: split_end loses nothing and keeps the order.  With an end fence of
\* at least length colons in the blocks, the lines returned, the fence and
\* the lines left in the list are the lines given, the fence being the first
\* such fence, and end is True; with none, all blocks are returned as they
\* were, the list is left empty and end is False
C22_SplitEndPartitions ==
    fout # <<>> =>
        IF EndsIn(fin[1].blocks, fin[1].length) # {}
        THEN /\ fout[1].end
             /\ Len(Flat(fout[1].good)) + 1 = Min(EndsIn(fin[1].blocks, fin[1].length))
             /\ Flat(fout[1].good)
                  \o <<Flat(fin[1].blocks)[Min(EndsIn(fin[1].blocks, fin[1].length))]>>
                  \o Flat(fout[1].bad)
                = Flat(fin[1].blocks)
        ELSE /\ ~fout[1].end
             /\ fout[1].good = fin[1].blocks
             /\ fout[1].bad = <<>>

\* the fence was found in the middle block of three, after a fence too short
\* for the directive, with a line before it and a line after it in its block
C22_Witness ==
    /\ fout # <<>>
    /\ fin[1] = [blocks |-> <<<<End(3), Text("a")>>, <<Text("a"), End(4)>>,
                              <<End(4), Text("a")>>>>,
                 length |-> 4]
    /\ fout[1].end
    /\ fout[1].good = <<<<End(3), Text("a")>>, <<Text("a")>>>>
    /\ fout[1].bad = <<<<End(4), Text("a")>>>>

\* the event with which the host takes back the run that logged split_end
\* event i, 0 if that run did not return
RanOf(i) ==
    IF CleanUpOf(i) # 0 /\ CleanUpOf(i) + 1 \in Events("ran")
    THEN CleanUpOf(i) + 1 ELSE 0

\* the block dispatches made by the run that logged split_end event i
DispatchedBy(i) ==
    {d \in Events("dispatch") :
        i < d /\ d < CleanUpOf(i) /\ log[d].id = log[i].id /\ log[d].mode = "block"}

\* C23 as stated: every run leaves the host fewer lines than it was given,
\* and every block it hands to the host's parser is shorter than what it was
\* given
C23_NestedGetsLess ==
    /\ error # "NoProgress"
    /\ \A i \in Events("split_end") :
         /\ RanOf(i) # 0
         /\ Len(Flat(log[RanOf(i)].left)) < Len(Flat(log[RanOf(i)].given))
         /\ \A d \in DispatchedBy(i) :
              Len(log[d].block) < Len(Flat(log[RanOf(i)].given))

\* C23: every run leaves the host fewer lines than it was given.  A block it
\* hands to the host's parser is never longer than what run was given, and
\* shorter if run opened a directive; it is as long only when run resumed a
\* hungry entry with one block without its end fence, and then the entry is
\* not hungry meanwhile, so fewer entries are hungry at the test under it
\* than at the test before the run
C23_ShrinksOrFewerHungry ==
    /\ error # "NoProgress"
    /\ \A i \in Events("split_end") :
         /\ RanOf(i) # 0
         /\ Len(Flat(log[RanOf(i)].left)) < Len(Flat(log[RanOf(i)].given))
         /\ \A d \in DispatchedBy(i) :
              /\ Len(log[d].block) <= Len(Flat(log[RanOf(i)].given))
              /\ log[i - 1].op = "open"
                   => Len(log[d].block) < Len(Flat(log[RanOf(i)].given))
              /\ Len(log[d].block) = Len(Flat(log[RanOf(i)].given)) =>
                   /\ log[i - 1].op = "test"
                   /\ log[RanOf(i)].given = <<log[d].block>>
                   /\ ~log[i].end
                   /\ ~log[d].flag
                   /\ Len(log[d + 1].hungry) < Len(log[i - 1].hungry)

\* one call in which a run opened a directive and handed on a shorter block,
\* and a run resumed an entry and handed on the one block it was given
C23_Witness ==
    /\ \E i \in Events("split_end") : \E d \in DispatchedBy(i) :
         /\ RanOf(i) # 0
         /\ log[i - 1].op = "open"
         /\ Len(log[d].block) < Len(Flat(log[RanOf(i)].given))
    /\ \E i \in Events("split_end") : \E d \in DispatchedBy(i) :
         /\ RanOf(i) # 0
         /\ log[i - 1].op = "test"
         /\ log[RanOf(i)].given = <<log[d].block>>

\* the dispatches made for the entry of split_end event i by its run, in order
DispatchesOf(i) ==
    SelectSeq(SubSeq(log, i + 1, CleanUpOf(i) - 1),
              LAMBDA e : e.op = "dispatch" /\ e.id = log[i].id)

\* the number of lines in the blocks of the dispatch events evs
RECURSIVE Taken(_)
Taken(evs) ==
    IF evs = <<>> THEN 0 ELSE Len(Head(evs).block) + Taken(Tail(evs))

\* the lines of a block that belong to a config header
HeaderCount(block) ==
    Cardinality({j \in 1..Len(block) : block[j].k \in {"opt", "yaml"}})

\* C24: a block claimed as the start of a new directive loses no line.  The
\* lines run was given are the start fence, the header, the lines dispatched
\* to the directive, the end fence if one was found, and the lines left in
\* the host's list; lines before the start fence are among them
C24_NoLineLost ==
    \A o \in Events("open") :
        (o + 1 \in Events("split_end") /\ RanOf(o + 1) # 0) =>
            Len(Flat(log[RanOf(o + 1)].given))
              = 1 + HeaderCount(log[RanOf(o + 1)].given[1])
                  + Taken(DispatchesOf(o + 1))
                  + (IF log[o + 1].end THEN 1 ELSE 0)
                  + Len(Flat(log[RanOf(o + 1)].left))

\* the tab groups of the tree, and the inputs of the tabs
TabGroups == {n \in 1..Len(tree) : tree[n].tag = "div" /\ tree[n].cls = tabbed_set}

TabInputs == {n \in 1..Len(tree) : tree[n].tag = "input"}

\* tab_group_count, 0 while the tracker has no such key
GroupCount(tracker) == IF tracker = <<>> THEN 0 ELSE tracker[1]

\* the children of the div of class cls of tab group g
PartsOf(g, cls) ==
    IF DivOfClass(tree, g, cls) = None THEN <<>>
    ELSE tree[DivOfClass(tree, g, cls)].kids

\* C25, in every state of a document: the groups are numbered 1 to the
\* counter, no two inputs have the same id, and every group has as many
\* inputs, labels and content blocks as its data-tabs attribute says
C25_GroupsConsistent ==
    /\ Cardinality(TabGroups) = GroupCount(trackers["tab"])
    /\ {tree[g].tabs[1] : g \in TabGroups} = 1..GroupCount(trackers["tab"])
    /\ \A a \in TabInputs : \A b \in TabInputs : a # b => tree[a].tabs # tree[b].tabs
    /\ \A a \in TabInputs :
         \E g \in TabGroups :
            /\ \E i \in 1..Len(tree[g].kids) : tree[g].kids[i] = a
            /\ tree[a].tabs[1] = tree[g].tabs[1]
            /\ tree[a].tabs[2] \in 1..tree[g].tabs[2]
    /\ \A g \in TabGroups :
         /\ tree[g].tabs[2] >= 1
         /\ Len(FindAll(tree, g, "input")) = tree[g].tabs[2]
         /\ Len(PartsOf(g, "tabbed-labels")) = tree[g].tabs[2]
         /\ Len(PartsOf(g, "tabbed-content")) = tree[g].tabs[2]

\* C25: within a document the tab group counter never goes down and goes up
\* by one for every group created, the ids of the tab inputs are all
\* different, and the inputs, labels and content blocks of every group are
\* as many as its data-tabs attribute says
C25_TabsCounted ==
    /\ []C25_GroupsConsistent
    /\ [][/\ GroupCount(trackers'["tab"]) >= GroupCount(trackers["tab"])
          /\ GroupCount(trackers'["tab"]) - GroupCount(trackers["tab"])
               = Cardinality({n \in 1..Len(tree') :
                                 tree'[n].tag = "div" /\ tree'[n].cls = tabbed_set})
                 - Cardinality(TabGroups)]_vars

\* three groups, one of them with two tabs and one inside a tab
C25_Witness ==
    /\ Cardinality(TabGroups) = 3
    /\ \E g \in TabGroups : tree[g].tabs[2] = 2
    /\ \E g \in TabGroups : \E h \in TabGroups : g # h /\ Descends(tree, h, g)

============================================================================
